---------------------------- MODULE Spec2Model ----------------------------
(***************************************************************************)
(* Model of label_merge_pdf.py: the text wrapper (wrap_text_to_width), the *)
(* font fitter (fit_text_into_label), the cover sheet's center_text and    *)
(* the label loop of create_labels_pdf.                                    *)
(*                                                                         *)
(* Text is a sequence of one-character strings.  Lengths are integers:     *)
(* a measured width is in thousandths of a point (font size times the sum  *)
(* of the glyph widths, which the font gives in thousandths of an em), a   *)
(* height is in tenths of a point.  The Python code computes the same      *)
(* quantities in binary floating point; the model computes them exactly.   *)
(***************************************************************************)
EXTENDS Integers, Sequences, FiniteSets, TLC

VARIABLES
    \* wrap_text_to_width(text, font_name, font_size, max_width, canvas_obj)
    text, font_size, max_width, words, lines, current_line, wpc,
    \* fit_text_into_label(c, text_lines, label_width, label_height, ...)
    text_lines, label_width, start_font_size, min_font_size, fitted,
    \* create_cover_sheet.center_text(text, y_position, font_name, font_size)
    ct_text, ct_base, ct_font_size, text_width, x_position2, shrinks, cpc,
    \* create_labels_pdf(dataframe, output_path)
    record_count, idx, row_count, rec, col_idx, y_pos, pages, on_page,
    drawn, barcodes, with_id, saves, pc

wrapVars  == <<text, font_size, max_width, words, lines, current_line, wpc>>
fitVars   == <<text_lines, label_width, start_font_size, min_font_size, fitted>>
coverVars == <<ct_text, ct_base, ct_font_size, text_width, x_position2, shrinks, cpc>>
sheetVars == <<record_count, idx, row_count, rec, col_idx, y_pos, pages, on_page,
               drawn, barcodes, with_id, saves, pc>>
vars == <<wrapVars, fitVars, coverVars, sheetVars>>

-----------------------------------------------------------------------------
(* Text: Python str operations on sequences of characters.                 *)

SP == " "

\* str.split() with no argument: the maximal runs of non-whitespace.
RECURSIVE SplitFrom(_, _, _, _)
SplitFrom(s, i, cur, acc) ==
    IF i > Len(s)
    THEN IF cur = <<>> THEN acc ELSE Append(acc, cur)
    ELSE IF s[i] = SP
         THEN SplitFrom(s, i + 1, <<>>, IF cur = <<>> THEN acc ELSE Append(acc, cur))
         ELSE SplitFrom(s, i + 1, Append(cur, s[i]), acc)

Split(s) == SplitFrom(s, 1, <<>>, <<>>)

\* str.strip(): leading and trailing whitespace removed.
RECURSIVE LStrip(_)
LStrip(s) == IF s # <<>> /\ Head(s) = SP THEN LStrip(Tail(s)) ELSE s

RECURSIVE RStrip(_)
RStrip(s) ==
    IF s # <<>> /\ s[Len(s)] = SP THEN RStrip(SubSeq(s, 1, Len(s) - 1)) ELSE s

Strip(s) == RStrip(LStrip(s))

\* Times-Roman glyph widths in thousandths of an em (the metrics stringWidth
\* reads for the standard font the program draws with).
WidthClasses ==
    <<[w |-> 250, of |-> {" ", ",", "."}],
      [w |-> 278, of |-> {"i", "l", "t", "j"}],
      [w |-> 333, of |-> {"r", "f", "I"}],
      [w |-> 389, of |-> {"s"}],
      [w |-> 444, of |-> {"a", "c", "e", "z"}],
      [w |-> 500, of |-> {"0", "1", "2", "3", "4", "5", "6", "7", "8", "9", "$",
                          "b", "d", "g", "h", "k", "n", "o", "p", "q", "u", "v",
                          "x", "y"}],
      [w |-> 556, of |-> {"S", "F", "P"}],
      [w |-> 611, of |-> {"L", "E", "T", "Z"}],
      [w |-> 667, of |-> {"B", "C", "R"}],
      [w |-> 722, of |-> {"A", "D", "G", "H", "K", "N", "O", "Q", "U", "V",
                          "X", "Y", "w"}],
      [w |-> 778, of |-> {"m"}],
      [w |-> 889, of |-> {"M"}],
      [w |-> 944, of |-> {"W"}]>>

CharWidth ==
    [ch \in UNION {WidthClasses[k].of : k \in DOMAIN WidthClasses} |->
        WidthClasses[CHOOSE k \in DOMAIN WidthClasses : ch \in WidthClasses[k].of].w]

RECURSIVE SumWidths(_, _)
SumWidths(s, n) == IF n = 0 THEN 0 ELSE CharWidth[s[n]] + SumWidths(s, n - 1)

\* stringWidth(text, font_name, font_size), in thousandths of a point.
stringWidth(s, size) == size * SumWidths(s, Len(s))

\* A length given in points, in thousandths of a point.
Milli(points) == 1000 * points

-----------------------------------------------------------------------------
(* wrap_text_to_width                                                      *)

\* The test of line 175 mutated: a line that exactly fills the width is
\* still extended, and so is one that overflows by less than a point.
ExceedsWidthLoose(test_line, size, width) ==
    stringWidth(test_line, size) > Milli(width + 1)

\* Line 175: stringWidth(test_line, font_name, font_size) > max_width
ExceedsWidth(test_line, size, width) ==
    stringWidth(test_line, size) > Milli(width)

\* Line 172: (current_line + " " + w).strip() if current_line else w
TestLine(cur, w) == IF cur # <<>> THEN Strip(cur \o <<SP>> \o w) ELSE w

\* One iteration of the loop of lines 170-180 on the pair (lines, current_line).
WrapBody(ls, cur, w, size, width) ==
    LET test_line == TestLine(cur, w) IN
    IF ExceedsWidth(test_line, size, width)
    THEN [lines |-> IF cur # <<>> THEN Append(ls, cur) ELSE ls, current_line |-> w]
    ELSE [lines |-> ls, current_line |-> test_line]

\* Lines 182-185: the last line is appended when it is not empty.
WrapEnd(ls, cur) == IF cur # <<>> THEN Append(ls, cur) ELSE ls

RECURSIVE WrapFrom(_, _, _, _, _)
WrapFrom(ws, ls, cur, size, width) ==
    IF ws = <<>>
    THEN WrapEnd(ls, cur)
    ELSE LET st == WrapBody(ls, cur, Head(ws), size, width)
         IN  WrapFrom(Tail(ws), st.lines, st.current_line, size, width)

\* wrap_text_to_width as a function of its arguments.
wrap_text_to_width(s, size, width) == WrapFrom(Split(s), <<>>, <<>>, size, width)


-----------------------------------------------------------------------------
(* fit_text_into_label                                                     *)

\* Lines 196-198 and 212-214: every input line wrapped, the results joined.
RECURSIVE WrapAll(_, _, _)
WrapAll(tl, size, width) ==
    IF tl = <<>> THEN <<>>
    ELSE wrap_text_to_width(Head(tl), size, width) \o WrapAll(Tail(tl), size, width)

\* Lines 201-202 and 207-208: len(wrapped_lines) * (size * 1.2), in tenths
\* of a point.
TotalHeight(n, size) == n * (size * 12)

\* The loop test of line 205 with the comparison of heights reversed.
ShrinkMoreFlipped(total, height, size, minsz) == total < height /\ size > minsz

\* The loop test of line 205 without its floor.
ShrinkMoreNoFloor(total, height, size, minsz) == total > height /\ size > 0

\* Line 205: total_height > label_height and current_font_size > min_font_size
ShrinkMore(total, height, size, minsz) == total > height /\ size > minsz

\* The loop of lines 205-214.  The size is decremented, the height is
\* recomputed from the lines wrapped at the size before, and the text is
\* wrapped again only when that height is still too large; total_height is
\* not recomputed after the re-wrap.
RECURSIVE FitLoop(_, _, _, _, _, _, _)
FitLoop(tl, width, height, minsz, wrapped, size, total) ==
    IF ShrinkMore(total, height, size, minsz)
    THEN LET s1 == size - 1
             t1 == TotalHeight(Len(wrapped), s1)
             w1 == IF t1 > height THEN WrapAll(tl, s1, width) ELSE wrapped
         IN  FitLoop(tl, width, height, minsz, w1, s1, t1)
    ELSE [wrapped_lines |-> wrapped, font_size |-> size]

\* fit_text_into_label(c, text_lines, label_width, label_height, font_name,
\* start_font_size, min_font_size): label_width in points, label_height in
\* tenths of a point.
fit_text_into_label(tl, lw, height, start, minsz) ==
    LET width   == lw - 4
        wrapped == WrapAll(tl, start, width)
    IN  FitLoop(tl, width, height, minsz, wrapped, start,
                TotalHeight(Len(wrapped), start))

-----------------------------------------------------------------------------
(* Bounds and input sets of the function-level specifications.             *)

\* Longest text (in characters) wrap_text_to_width is called with.
MaxLen == 6
\* Most words, over all its lines, in the text fit_text_into_label is given.
MaxWords == 3

WrapChars  == {SP, "i", "m"}
WrapSizes  == {10, 12}
WrapWidths == {5, 10, 20}

RECURSIVE SeqsUpTo(_, _)
SeqsUpTo(S, n) ==
    IF n = 0 THEN {<<>>}
    ELSE LET shorter == SeqsUpTo(S, n - 1)
         IN  shorter \cup {Append(q, x) : q \in {r \in shorter : Len(r) = n - 1}, x \in S}

FitWords   == {<<"i">>, <<"m", "m">>}
FitSizes   == 10..12
FitWidths  == {42, 60}
FitHeights == {140, 250, 270, 400}

\* The lists of non-empty lines holding n words in all: a word starts a new
\* line or follows a space on the last one.
RECURSIVE TextLinesOf(_)
TextLinesOf(n) ==
    IF n = 0 THEN {<<>>}
    ELSE LET prev == TextLinesOf(n - 1)
         IN  {Append(tl, w) : tl \in prev, w \in FitWords}
             \cup {[tl EXCEPT ![Len(tl)] = @ \o <<SP>> \o w] :
                      tl \in {t \in prev : t # <<>>}, w \in FitWords}

FitTexts == UNION {TextLinesOf(n) : n \in 1..MaxWords}

NoFit == [wrapped_lines |-> <<>>, font_size |-> 0]

-----------------------------------------------------------------------------
(* The variables of a function that a specification does not exercise.     *)

WrapIdle ==
    /\ text = <<>> /\ font_size = 0 /\ max_width = 0
    /\ words = <<>> /\ lines = <<>> /\ current_line = <<>> /\ wpc = "idle"

FitIdle ==
    /\ text_lines = <<>> /\ label_width = 0
    /\ start_font_size = 0 /\ min_font_size = 0
    /\ fitted = <<>>

CoverIdle ==
    /\ ct_text = <<>> /\ ct_base = 0 /\ ct_font_size = 0
    /\ text_width = 0 /\ x_position2 = 0 /\ shrinks = 0 /\ cpc = "idle"

SheetIdle ==
    /\ record_count = 0 /\ idx = 0 /\ row_count = 0 /\ rec = <<>>
    /\ col_idx = 0 /\ y_pos = 0 /\ pages = <<>> /\ on_page = 0
    /\ drawn = <<>> /\ barcodes = 0 /\ with_id = 0 /\ saves = 0 /\ pc = "idle"

-----------------------------------------------------------------------------
(* SpecWrap: one call of wrap_text_to_width, a step per loop iteration.    *)

WrapInit ==
    /\ text \in SeqsUpTo(WrapChars, MaxLen)
    /\ font_size \in WrapSizes
    /\ max_width \in WrapWidths
    /\ words = <<>> /\ lines = <<>> /\ current_line = <<>>
    /\ wpc = "start"
    /\ FitIdle /\ CoverIdle /\ SheetIdle

\* Lines 166-168.
WrapSplit ==
    /\ wpc = "start"
    /\ words' = Split(text)
    /\ lines' = <<>>
    /\ current_line' = <<>>
    /\ wpc' = "loop"
    /\ UNCHANGED <<text, font_size, max_width, fitVars, coverVars, sheetVars>>

\* Lines 170-180, one word.
WrapWord ==
    /\ wpc = "loop"
    /\ words # <<>>
    /\ LET st == WrapBody(lines, current_line, Head(words), font_size, max_width)
       IN  /\ lines' = st.lines
           /\ current_line' = st.current_line
    /\ words' = Tail(words)
    /\ UNCHANGED <<text, font_size, max_width, wpc, fitVars, coverVars, sheetVars>>

\* Lines 182-185.
WrapReturn ==
    /\ wpc = "loop"
    /\ words = <<>>
    /\ lines' = WrapEnd(lines, current_line)
    /\ wpc' = "done"
    /\ UNCHANGED <<text, font_size, max_width, words, current_line,
                   fitVars, coverVars, sheetVars>>

WrapNext == WrapSplit \/ WrapWord \/ WrapReturn

SpecWrap == WrapInit /\ [][WrapNext]_vars

-----------------------------------------------------------------------------
(* SpecFit: calls of fit_text_into_label that differ only in the height.   *)

FitInit ==
    /\ text_lines \in FitTexts
    /\ label_width \in FitWidths
    /\ start_font_size \in FitSizes
    /\ min_font_size \in FitSizes
    /\ fitted = [h \in FitHeights |-> NoFit]
    /\ WrapIdle /\ CoverIdle /\ SheetIdle

\* A call with label_height = h; its result is kept under h.
CallFit(h) ==
    /\ fitted[h] = NoFit
    /\ fitted' = [fitted EXCEPT ![h] =
                     fit_text_into_label(text_lines, label_width, h,
                                         start_font_size, min_font_size)]
    /\ UNCHANGED <<text_lines, label_width, start_font_size, min_font_size,
                   wrapVars, coverVars, sheetVars>>

FitNext == \E h \in FitHeights : CallFit(h)

SpecFit == FitInit /\ [][FitNext]_vars

-----------------------------------------------------------------------------
(* Properties of wrap_text_to_width (SpecWrap).                            *)

RECURSIVE WordsOf(_)
WordsOf(ls) == IF ls = <<>> THEN <<>> ELSE Split(Head(ls)) \o WordsOf(Tail(ls))

Overflows(l) == stringWidth(l, font_size) > Milli(max_width)

\* C1: every line wrap_text_to_width has emitted is no wider than max_width
\* or consists of exactly one word, and the lines returned hold the words of
\* the text, whole and in order (no word split, none dropped).
C1_WrapLines ==
    /\ \A i \in 1..Len(lines) : ~Overflows(lines[i]) \/ Len(Split(lines[i])) = 1
    /\ wpc = "done" => WordsOf(lines) = Split(text)

\* A finished call that returned an overflowing one-word line beside a line
\* of several words.
C1_Witness ==
    /\ wpc = "done"
    /\ \E i \in 1..Len(lines) : Overflows(lines[i]) /\ Len(Split(lines[i])) = 1
    /\ \E j \in 1..Len(lines) : Len(Split(lines[j])) >= 2

-----------------------------------------------------------------------------
(* Properties of fit_text_into_label (SpecFit).                            *)

Called(h) == fitted[h] # NoFit

\* len(wrapped_lines) * font_size * 1.2 <= label_height, in tenths of a point.
FitsHeight(res, h) == 12 * Len(res.wrapped_lines) * res.font_size <= h

\* C2: with 0 < min_font_size <= start_font_size, the returned font size is
\* within [min_font_size, start_font_size], and the returned lines at the
\* returned size fit the height or the size is min_font_size.
C2_FitRange ==
    \A h \in FitHeights :
        Called(h) /\ 0 < min_font_size /\ min_font_size <= start_font_size
        => /\ min_font_size <= fitted[h].font_size
           /\ fitted[h].font_size <= start_font_size
           /\ FitsHeight(fitted[h], h) \/ fitted[h].font_size = min_font_size

\* One call ended strictly between the two sizes with lines that fit, and
\* another ended at the minimum with lines that still overflow.
C2_Witness ==
    /\ \E h \in FitHeights :
          /\ Called(h) /\ FitsHeight(fitted[h], h)
          /\ min_font_size < fitted[h].font_size
          /\ fitted[h].font_size < start_font_size
    /\ \E h \in FitHeights :
          /\ Called(h) /\ ~FitsHeight(fitted[h], h)
          /\ fitted[h].font_size = min_font_size
          /\ min_font_size < start_font_size

\* C3: of two calls that differ only in the height limit, the one with the
\* smaller limit never returns the larger font size.
C3_FitMonotone ==
    \A h1, h2 \in FitHeights :
        Called(h1) /\ Called(h2) /\ h1 <= h2
        => fitted[h1].font_size <= fitted[h2].font_size

\* Two calls where the smaller height gave a strictly smaller font size.
C3_Witness ==
    \E h1, h2 \in FitHeights :
        /\ Called(h1) /\ Called(h2) /\ h1 < h2
        /\ fitted[h1].font_size < fitted[h2].font_size

\* The sizes of [min_font_size, start_font_size] at which the text, wrapped
\* at that size, fits the height h.
FittingSizes(h) ==
    {s \in min_font_size..start_font_size :
        12 * Len(WrapAll(text_lines, s, label_width - 4)) * s <= h}

LargestFitting(h) ==
    IF FittingSizes(h) = {} THEN min_font_size
    ELSE CHOOSE s \in FittingSizes(h) : \A t \in FittingSizes(h) : t <= s

\* C10: the lines returned are the input lines wrapped at the returned font
\* size, and that size is the largest of [min_font_size, start_font_size]
\* at which the wrapped text fits the height, or min_font_size if none does.
C10_WrapAtReturnedSize ==
    \A h \in FitHeights :
        Called(h) /\ 0 < min_font_size /\ min_font_size <= start_font_size
        => /\ fitted[h].wrapped_lines =
                 WrapAll(text_lines, fitted[h].font_size, label_width - 4)
           /\ fitted[h].font_size = LargestFitting(h)

-----------------------------------------------------------------------------
(* SpecCover: one call of create_cover_sheet.center_text.                  *)

\* LETTER is 612 x 792 points and an inch is 72 points.
PAGE_WIDTH == 612
inch == 72
\* The floor of the shrink loop (line 42).
FloorSize == 16

\* Largest base font size and longest title the cover sheet is drawn with.
MaxBase == 33
MaxTitleLen == 34

RECURSIVE Repeat(_, _)
Repeat(ch, n) == IF n = 0 THEN <<>> ELSE <<ch>> \o Repeat(ch, n - 1)

Title2025 == <<"2", "0", "2", "5", " ", "L", "a", "b", "e", "l", "s">>

CoverTexts == {Title2025} \cup {Repeat("M", n) : n \in 0..MaxTitleLen}
CoverBases == FloorSize..MaxBase

\* The loop test of line 42 with its floor off by one.
CoverShrinkMoreOffByOne(width, size) ==
    width > Milli(PAGE_WIDTH - 2 * inch) /\ size >= FloorSize

\* Line 42: text_width > (PAGE_WIDTH - 2*inch) and font_size > 16
CoverShrinkMore(width, size) ==
    width > Milli(PAGE_WIDTH - 2 * inch) /\ size > FloorSize

CoverInit ==
    /\ ct_text \in CoverTexts
    /\ ct_base \in CoverBases
    /\ ct_font_size = ct_base
    /\ text_width = 0 /\ x_position2 = 0 /\ shrinks = 0
    /\ cpc = "measure"
    /\ WrapIdle /\ FitIdle /\ SheetIdle

\* Lines 38-39.
CoverMeasure ==
    /\ cpc = "measure"
    /\ text_width' = stringWidth(ct_text, ct_font_size)
    /\ cpc' = "loop"
    /\ UNCHANGED <<ct_text, ct_base, ct_font_size, x_position2, shrinks,
                   wrapVars, fitVars, sheetVars>>

\* Lines 42-45, one iteration.
CoverShrink ==
    /\ cpc = "loop"
    /\ CoverShrinkMore(text_width, ct_font_size)
    /\ ct_font_size' = ct_font_size - 2
    /\ text_width' = stringWidth(ct_text, ct_font_size - 2)
    /\ shrinks' = shrinks + 1
    /\ UNCHANGED <<ct_text, ct_base, x_position2, cpc, wrapVars, fitVars, sheetVars>>

\* Lines 48-51.  x_position2 is twice x_position, in thousandths of a point:
\* x_position = PAGE_WIDTH / 2 - text_width / 2.
CoverDraw ==
    /\ cpc = "loop"
    /\ ~CoverShrinkMore(text_width, ct_font_size)
    /\ x_position2' = Milli(PAGE_WIDTH) - text_width
    /\ cpc' = "done"
    /\ UNCHANGED <<ct_text, ct_base, ct_font_size, text_width, shrinks,
                   wrapVars, fitVars, sheetVars>>

CoverNext == CoverMeasure \/ CoverShrink \/ CoverDraw

SpecCover == CoverInit /\ [][CoverNext]_vars

\* What C9 says of the position and of the case without shrinking: the text
\* is drawn centred on its width at the final size, and a text narrower at
\* the base size than the page less its margins keeps the base size.
CoverCentred ==
    /\ ct_font_size <= ct_base
    /\ stringWidth(ct_text, ct_base) < Milli(PAGE_WIDTH - 2 * inch)
       => ct_font_size = ct_base /\ shrinks = 0
    /\ x_position2 = Milli(PAGE_WIDTH) - stringWidth(ct_text, ct_font_size)

\* C9 as stated: for every base size >= 16 the drawn size is never below 16
\* and never above the base size, a text that fits at the base size is not
\* shrunk, and the text is drawn centred.
C9_Original ==
    cpc = "done" => ct_font_size >= FloorSize /\ CoverCentred

\* C9 as amended: the drawn size is never below 16 when the base size is even
\* (the program's are 32 and 26) and never below 15 when it is odd; the rest
\* as stated.
C9_CoverFloor ==
    cpc = "done" =>
        /\ ct_base % 2 = 0 => ct_font_size >= FloorSize
        /\ ct_font_size >= FloorSize - 1
        /\ CoverCentred

\* A title drawn after shrinking from the default size down to the floor,
\* still wider than the page less its margins.
C9_Witness ==
    /\ cpc = "done" /\ ct_base = 32 /\ ct_font_size = FloorSize
    /\ shrinks = 8
    /\ text_width > Milli(PAGE_WIDTH - 2 * inch)

-----------------------------------------------------------------------------
(* create_labels_pdf: cleaning, the address line and the page geometry.    *)

\* A missing cell of the data frame (pd.isna(value)); no text equals it.
NaN == <<"NaN">>

UpperAlpha == <<"A", "B", "C", "D", "E", "F", "G", "H", "I", "J", "K", "L", "M",
                "N", "O", "P", "Q", "R", "S", "T", "U", "V", "W", "X", "Y", "Z">>
LowerAlpha == <<"a", "b", "c", "d", "e", "f", "g", "h", "i", "j", "k", "l", "m",
                "n", "o", "p", "q", "r", "s", "t", "u", "v", "w", "x", "y", "z">>

\* str.lower()
Lower(s) ==
    [i \in 1..Len(s) |->
        IF \E k \in 1..26 : UpperAlpha[k] = s[i]
        THEN LowerAlpha[CHOOSE k \in 1..26 : UpperAlpha[k] = s[i]]
        ELSE s[i]]

\* clean_text_field(value), lines 100-104.
clean_text_field(value) ==
    IF value = NaN
       \/ Lower(Strip(value)) \in {<<"n", "a", "n">>, <<"n", "u", "l", "l">>, <<>>}
    THEN <<>>
    ELSE Strip(value)

\* The condition of line 271 with "or" for "and".
HasCityStateEither(city, state) == city # <<>> \/ state # <<>>

\* Line 271: ... if AddrCity and AddrState else ""
HasCityState(city, state) == city # <<>> /\ state # <<>>

\* Line 271: f"{AddrCity}, {AddrState} {AddrZIP}" if AddrCity and AddrState else ""
CityStateZip(city, state, zip) ==
    IF HasCityState(city, state)
    THEN city \o <<",", SP>> \o state \o <<SP>> \o zip
    ELSE <<>>

\* [line for line in xs if line]
NonEmpty(xs) == SelectSeq(xs, LAMBDA l : l # <<>>)

\* Lines 262-268: the cleaned fields of a record.
Cleaned(r) ==
    [ConsID      |-> clean_text_field(r.ConsID),
     PrimAddText |-> clean_text_field(r.PrimAddText),
     AddrLines   |-> clean_text_field(r.AddrLines),
     AddrCity    |-> clean_text_field(r.AddrCity),
     AddrState   |-> clean_text_field(r.AddrState),
     AddrZIP     |-> clean_text_field(r.AddrZIP),
     Year_2024   |-> Strip(r.Year_2024)]

\* Line 274.
common_lines(c) ==
    NonEmpty(<<c.PrimAddText, c.AddrLines,
               CityStateZip(c.AddrCity, c.AddrState, c.AddrZIP)>>)

\* Lines 275 and 292: [ConsID] + common_lines if ConsID else common_lines
label_lines(c) ==
    IF c.ConsID # <<>> THEN <<c.ConsID>> \o common_lines(c) ELSE common_lines(c)

\* Line 252.
labels_per_page == 10
\* The defaults of fit_text_into_label (line 187), which every call takes.
DefaultStartSize == 14
DefaultMinSize == 12

\* Positions are in thousandths of a point.
\* Lines 226-227: label_width = 2.625 * inch, label_height = 1.0 * inch.
LabelWidthPt == 189
LabelHeightMilli == Milli(72)
\* Line 231: left_margin + col * label_width, left_margin = 0.3 * inch.
col_positions(col) == 21600 + col * Milli(LabelWidthPt)
\* Lines 234-235: start_y - r * label_height,
\* start_y = PAGE_HEIGHT - top_margin - label_height = 792 - 28.8 - 72.
row_positions(r) == 691200 - r * LabelHeightMilli
\* Line 286: label_height - label_height * 0.3 - 10 = 40.4 points.
TextAreaTenths == 404

\* Most records in the data frame.
MaxRecords == 23

Springfield == <<"S", "p", "r", "i", "n", "g", "f", "i", "e", "l", "d">>
IL          == <<"I", "L">>
Zip62704    == <<"6", "2", "7", "0", "4">>
IdA7        == <<"A", "7">>
MrX         == <<"M", "r", " ", "X">>
ElmSt       == <<"1", " ", "E", "l", "m", " ", "S", "t">>
LongStreet  == <<"1", "2", " ", "N", "o", "r", "t", "h", " ", "W", "a", "s", "h", "i", "n", "g", "t", "o", "n", " ", "B", "o", "u", "l", "e", "v", "a", "r", "d">>
Amount      == <<"$", "2", "5", ".", "0", "0">>

Rec(id, prim, addr, city, state, zip) ==
    [ConsID |-> id, PrimAddText |-> prim, AddrLines |-> addr, AddrCity |-> city,
     AddrState |-> state, AddrZIP |-> zip, Year_2024 |-> Amount]

\* Rows as read_csv_data leaves them: AddrLines is never empty (lines
\* 129-132) and Year_2024 is a formatted amount (line 154); the other cells
\* may be missing, blank or padded.
SampleRecords ==
    {Rec(IdA7, MrX, ElmSt, Springfield, IL, Zip62704),
     Rec(IdA7, NaN, ElmSt, Springfield, IL, NaN),
     Rec(IdA7, MrX, ElmSt, NaN, IL, Zip62704),
     Rec(IdA7, <<"N", "U", "L", "L">>, ElmSt, Springfield, <<SP>>, Zip62704),
     Rec(NaN, MrX, ElmSt, <<SP>> \o Springfield \o <<SP>>, IL, Zip62704),
     Rec(NaN, NaN, ElmSt, Springfield, IL, NaN),
     Rec(<<SP>>, NaN, LongStreet, Springfield, IL, NaN),
     Rec(IdA7, NaN, LongStreet, NaN, NaN, NaN)}

\* The cleaned fields of each record of the model, computed once.
CleanedOf == [r \in SampleRecords |-> Cleaned(r)]

\* Lines 290-296 and 314-320: fit_text_into_label(c, lines, label_width - 10,
\* text_area_height, font_name) on the record's lines, which are the same
\* for the three columns; computed once for each record of the model.
LabelFit ==
    [c \in {CleanedOf[r] : r \in SampleRecords} |->
        fit_text_into_label(label_lines(c), LabelWidthPt - 10, TextAreaTenths,
                            DefaultStartSize, DefaultMinSize)]

\* The page-break test of line 257 without "idx > 0".
PageBreakDueAtZero(i) == i % labels_per_page = 0

\* The page-break test of line 257 taken one record early.
PageBreakDueEarly(i) == i > 0 /\ (i + 1) % labels_per_page = 0

\* Line 257: idx > 0 and idx % labels_per_page == 0
PageBreakDue(i) == i > 0 /\ i % labels_per_page = 0

\* The test of line 282 made to depend on the column.
DrawsBarcodeFirstOnly(id, col) == id # <<>> /\ col = 0

\* Line 282: if ConsID
DrawsBarcode(id, col) == id # <<>>

\* The test of line 289 taking the second column for a first one too.
IsFirstColumnWide(col) == col <= 1

\* Line 289: if col_idx == 0
IsFirstColumn(col) == col = 0

\* A c.drawString or barcode.drawOn call.
DrawOp(op, col, x, y, t) == [op |-> op, col |-> col, x |-> x, y |-> y, text |-> t]

\* Lines 309-311 and 324-326: the lines drawn one below the other from y.
RECURSIVE DrawLines(_, _, _, _, _)
DrawLines(ls, col, x, y, line_height) ==
    IF ls = <<>> THEN <<>>
    ELSE <<DrawOp("line", col, x, y, Head(ls))>>
         \o DrawLines(Tail(ls), col, x, y - line_height, line_height)

\* Lines 279-326: what is drawn for one column of the record c at row y.
ColumnDraws(c, col, y) ==
    LET x_pos     == col_positions(col)
        bar       == IF DrawsBarcode(c.ConsID, col)
                     THEN <<DrawOp("barcode", col, x_pos,
                                   y + LabelHeightMilli - Milli(22), c.ConsID)>>
                     ELSE <<>>
        fit       == LabelFit[c]
        fs        == fit.font_size
        \* line_height = fs * .9
        lh        == fs * 900
        current_y == y + 100 * TextAreaTenths
    IN  IF IsFirstColumn(col)
        THEN IF c.ConsID # <<>>
             THEN bar
                  \o <<DrawOp("ConsID", col, x_pos + Milli(2), current_y, c.ConsID),
                       DrawOp("Year_2024", col,
                              x_pos + Milli(2) + stringWidth(c.ConsID, fs) + Milli(30),
                              current_y, c.Year_2024)>>
                  \o DrawLines(Tail(fit.wrapped_lines), col, x_pos + Milli(2),
                               current_y - lh, lh)
             ELSE bar \o DrawLines(fit.wrapped_lines, col, x_pos + Milli(2),
                                   current_y, lh)
        ELSE bar \o DrawLines(fit.wrapped_lines, col, x_pos + Milli(2), current_y, lh)

-----------------------------------------------------------------------------
(* Spec: create_labels_pdf on a data frame of record_count records.        *)

CoverPage == [kind |-> "cover", records |-> 0]
LabelPage(n) == [kind |-> "labels", records |-> n]

Init ==
    /\ record_count \in 0..MaxRecords
    /\ idx = 0 /\ row_count = 0 /\ rec = <<>> /\ col_idx = 0 /\ y_pos = 0
    /\ pages = <<>> /\ on_page = 0 /\ drawn = <<>>
    /\ barcodes = 0 /\ with_id = 0 /\ saves = 0
    /\ pc = "start"
    /\ WrapIdle /\ FitIdle /\ CoverIdle

\* Lines 238-253: the canvas is created and create_cover_sheet draws the
\* cover and ends its page (line 82).
CreateCoverSheet ==
    /\ pc = "start"
    /\ pages' = Append(pages, CoverPage)
    /\ on_page' = 0
    /\ row_count' = 0
    /\ idx' = 0
    /\ pc' = "loop"
    /\ UNCHANGED <<record_count, rec, col_idx, y_pos, drawn, barcodes, with_id,
                   saves, wrapVars, fitVars, coverVars>>

\* Lines 255-259: the next record is taken and, at a page boundary, the page
\* is ended and the row counter reset.
NextRecord ==
    /\ pc = "loop"
    /\ idx < record_count
    /\ \E r \in SampleRecords : rec' = r
    /\ IF PageBreakDue(idx)
       THEN /\ pages' = Append(pages, LabelPage(on_page))
            /\ on_page' = 0
            /\ row_count' = 0
       ELSE UNCHANGED <<pages, on_page, row_count>>
    /\ drawn' = <<>>
    /\ pc' = "extract"
    /\ UNCHANGED <<record_count, idx, col_idx, y_pos, barcodes, with_id, saves,
                   wrapVars, fitVars, coverVars>>

\* Lines 262-276: the fields are cleaned and the row's y position looked up.
Extract ==
    /\ pc = "extract"
    /\ y_pos' = row_positions(row_count % 10)
    /\ with_id' = with_id + (IF CleanedOf[rec].ConsID # <<>> THEN 1 ELSE 0)
    /\ col_idx' = 0
    /\ pc' = "col"
    /\ UNCHANGED <<record_count, idx, row_count, rec, pages, on_page, drawn,
                   barcodes, saves, wrapVars, fitVars, coverVars>>

\* Lines 278-326, one column.
DrawColumn ==
    /\ pc = "col"
    /\ LET ops == ColumnDraws(CleanedOf[rec], col_idx, y_pos)
       IN  /\ drawn' = drawn \o ops
           /\ barcodes' = barcodes
                          + Len(SelectSeq(ops, LAMBDA o : o.op = "barcode"))
    /\ col_idx' = col_idx + 1
    /\ pc' = IF col_idx = 2 THEN "inc" ELSE "col"
    /\ UNCHANGED <<record_count, idx, row_count, rec, y_pos, pages, on_page,
                   with_id, saves, wrapVars, fitVars, coverVars>>

\* Line 328, and the step of enumerate.
IncRow ==
    /\ pc = "inc"
    /\ row_count' = row_count + 1
    /\ on_page' = on_page + 1
    /\ idx' = idx + 1
    /\ pc' = "loop"
    /\ UNCHANGED <<record_count, rec, col_idx, y_pos, pages, drawn, barcodes,
                   with_id, saves, wrapVars, fitVars, coverVars>>

\* Line 330: the records are exhausted and the last page is ended.
FinalShowPage ==
    /\ pc = "loop"
    /\ idx = record_count
    /\ pages' = Append(pages, LabelPage(on_page))
    /\ on_page' = 0
    /\ pc' = "save"
    /\ UNCHANGED <<record_count, idx, row_count, rec, col_idx, y_pos, drawn,
                   barcodes, with_id, saves, wrapVars, fitVars, coverVars>>

\* Line 331.
Save ==
    /\ pc = "save"
    /\ saves' = saves + 1
    /\ pc' = "done"
    /\ UNCHANGED <<record_count, idx, row_count, rec, col_idx, y_pos, pages,
                   on_page, drawn, barcodes, with_id, wrapVars, fitVars, coverVars>>

Next ==
    \/ CreateCoverSheet
    \/ NextRecord
    \/ Extract
    \/ DrawColumn
    \/ IncRow
    \/ FinalShowPage
    \/ Save

Spec == Init /\ [][Next]_vars

-----------------------------------------------------------------------------
(* Properties of create_labels_pdf (Spec).                                 *)

InRecord == pc \in {"extract", "col", "inc"}

\* C4: record idx is drawn in row idx mod 10 of label page idx div 10.  While
\* record idx is in hand the pages ended so far are the cover and idx div 10
\* label pages (a page break came before this record exactly when idx > 0
\* and idx mod 10 = 0), idx mod 10 records are already on the open page, and
\* row_count equals idx mod 10 when the y position is looked up.
C4_Pagination ==
    InRecord =>
        /\ row_count = idx % 10
        /\ Len(pages) = 1 + idx \div 10
        /\ \A k \in 2..Len(pages) : pages[k] = LabelPage(10)
        /\ on_page = idx % 10
        /\ pc # "extract" => y_pos = row_positions(idx % 10)

\* Record 10 is being drawn in the first row of the second label page, right
\* after the page that holds records 0 to 9 was ended.
C4_Witness ==
    /\ pc = "col" /\ idx = 10 /\ row_count = 0
    /\ y_pos = row_positions(0)
    /\ pages = <<CoverPage, LabelPage(10)>>

CeilDiv(n, d) == (n + d - 1) \div d

\* C5: the first page ended is the cover and no other page is; for N >= 1
\* records the finished document holds the cover followed by ceil(N/10)
\* label pages, each with 10 records except the last, which has the rest
\* and is not empty; the document is saved exactly once, as the last step.
C5_PageOrder ==
    /\ pc # "start" => Len(pages) >= 1 /\ pages[1] = CoverPage
    /\ \A k \in 2..Len(pages) : pages[k].kind = "labels"
    /\ saves = (IF pc = "done" THEN 1 ELSE 0)
    /\ pc = "done" /\ record_count >= 1 =>
          /\ Len(pages) = 1 + CeilDiv(record_count, 10)
          /\ \A k \in 2..(Len(pages) - 1) : pages[k].records = 10
          /\ pages[Len(pages)].records = record_count - 10 * (Len(pages) - 2)
          /\ pages[Len(pages)].records \in 1..10

\* 23 records: the cover, then label pages of 10, 10 and 3 records, saved.
C5_Witness ==
    /\ pc = "done" /\ record_count = 23 /\ saves = 1
    /\ pages = <<CoverPage, LabelPage(10), LabelPage(10), LabelPage(3)>>

BarcodesIn(col) ==
    SelectSeq(drawn, LAMBDA o : o.op = "barcode" /\ o.col = col)

\* C6: once a record's three columns are drawn, each column holds one
\* barcode of the cleaned id when that id is not empty and none when it is,
\* whatever font size the text was fitted at; between records the barcodes
\* drawn so far number three times the records with a non-empty id.
C6_Barcodes ==
    /\ pc = "inc" =>
          \A col \in 0..2 :
             IF CleanedOf[rec].ConsID # <<>>
             THEN /\ Len(BarcodesIn(col)) = 1
                  /\ BarcodesIn(col)[1].text = CleanedOf[rec].ConsID
             ELSE BarcodesIn(col) = <<>>
    /\ pc \in {"loop", "save", "done"} => barcodes = 3 * with_id

\* 23 records, all with an id: 69 barcodes.
C6_Witness ==
    pc = "done" /\ record_count = 23 /\ with_id = 23 /\ barcodes = 69

DrawnAt(k, op, col) == drawn[k].op = op /\ drawn[k].col = col

\* C7: for a record with a non-empty id and amount, column 0 draws the
\* amount on the line of the id (same y, to its right), and nothing drawn in
\* columns 1 and 2 is, or holds as a word, the amount.
C7_AmountFirstColumnOnly ==
    pc = "inc" /\ CleanedOf[rec].ConsID # <<>> /\ CleanedOf[rec].Year_2024 # <<>>
    => /\ \E i, j \in 1..Len(drawn) :
             /\ DrawnAt(i, "ConsID", 0) /\ drawn[i].text = CleanedOf[rec].ConsID
             /\ DrawnAt(j, "Year_2024", 0)
             /\ drawn[j].text = CleanedOf[rec].Year_2024
             /\ drawn[j].y = drawn[i].y
             /\ drawn[j].x > drawn[i].x
       /\ \A k \in 1..Len(drawn) :
             drawn[k].col \in {1, 2}
             => /\ drawn[k].op # "Year_2024"
                /\ \A n \in 1..Len(Split(drawn[k].text)) :
                      Split(drawn[k].text)[n] # CleanedOf[rec].Year_2024

\* A record with an id, all three columns drawn, the amount among the draws.
C7_Witness ==
    /\ pc = "inc" /\ CleanedOf[rec].ConsID # <<>>
    /\ \E j \in 1..Len(drawn) : DrawnAt(j, "Year_2024", 0) /\ drawn[j].text = Amount
    /\ \E k \in 1..Len(drawn) : DrawnAt(k, "line", 2)

\* The text lines drawn in a column, top to bottom (the amount aside).
ColumnTexts(col) ==
    LET ops == SelectSeq(drawn, LAMBDA o : o.col = col /\ o.op \in {"ConsID", "line"})
    IN  [k \in 1..Len(ops) |-> ops[k].text]

SpringfieldIL      == <<"S", "p", "r", "i", "n", "g", "f", "i", "e", "l", "d", ",", " ", "I", "L">>
SpringfieldIL62704 == <<"S", "p", "r", "i", "n", "g", "f", "i", "e", "l", "d", ",", " ", "I", "L", " ", "6", "2", "7", "0", "4">>

\* The city/state/postal line as C8 gives it.
Composite(c) ==
    c.AddrCity \o <<",", SP>> \o c.AddrState
    \o (IF c.AddrZIP # <<>> THEN <<SP>> \o c.AddrZIP ELSE <<>>)

\* C8: in every column of a drawn record no line is blank or padded; when
\* city and state are both non-empty the last line is "city, state" followed
\* by " postal" only if there is a postal code ("Springfield, IL" without
\* one, "Springfield, IL 62704" with one); otherwise the lines hold the
\* words of the id and of the two address fields and nothing else.
C8_CityStateZip ==
    pc = "inc" =>
        \A col \in 0..2 :
           LET c  == CleanedOf[rec]
               ts == ColumnTexts(col)
           IN  /\ \A k \in 1..Len(ts) : ts[k] # <<>> /\ Strip(ts[k]) = ts[k]
               /\ IF c.AddrCity # <<>> /\ c.AddrState # <<>>
                  THEN /\ ts # <<>>
                       /\ ts[Len(ts)] = Composite(c)
                       /\ c.AddrCity = Springfield /\ c.AddrState = IL
                          => ts[Len(ts)] = (IF c.AddrZIP = <<>> THEN SpringfieldIL
                                            ELSE SpringfieldIL62704)
                  ELSE WordsOf(ts)
                       = WordsOf(NonEmpty(<<c.ConsID, c.PrimAddText, c.AddrLines>>))

\* A record with city and state but no postal code was drawn, "Springfield,
\* IL" the last line of each column.
C8_Witness ==
    /\ pc = "inc"
    /\ CleanedOf[rec].AddrCity = Springfield /\ CleanedOf[rec].AddrZIP = <<>>
    /\ \A col \in 0..2 : ColumnTexts(col)[Len(ColumnTexts(col))] = SpringfieldIL

=============================================================================
